---- MODULE Spec2Model ----
(***************************************************************************)
(* Request handling of the SOCKS server in request.go: the request parser  *)
(* and dispatcher handleRequest, the command handlers, the address decoder *)
(* readAddrSpec and the reply encoder sendReply.  Bytes are the integers   *)
(* 0..255, byte strings are sequences of them.                             *)
(***************************************************************************)
EXTENDS Integers, Sequences, FiniteSets, TLC

VARIABLES
    rules,      \* Config.Rules of the server: "PermitAll" or "PermitNone"
    bufConn,    \* bytes of the control connection not yet read by the server
    ctrlOpen,   \* the client's end of the control connection is still open
    ctrlWrites, \* number of data writes the client made during the command
    pc,         \* position of the request's thread of execution
    header,     \* handleRequest: the three header bytes
    dest,       \* handleRequest: the decoded destination (*addrSpec)
    err,        \* error returned by handleRequest ("" is nil)
    cause,      \* the error wrapped by err ("" when none)
    written,    \* every byte written to the client connection, in order
    entered,    \* the command handler entered for the request, or "none"
    sent,       \* every byte the client put on the control connection
    decoded,    \* codec run: result of readAddrSpec on the encoded reply
    request,    \* SOCKS4 run: result of NewRequest
    replies,    \* number of sendReply calls made for the request
    zeroReads   \* the Read calls (by index) that return 0 bytes and no error

vars == <<rules, bufConn, ctrlOpen, ctrlWrites, pc, header, dest, err, cause,
          written, entered, sent, decoded, request, replies, zeroReads>>

-----------------------------------------------------------------------------
(* Protocol constants *)

socks5Version == 5
socks4Version == 4

connectCommand == 1
bindCommand == 2
associateCommand == 3
ipv4Address == 1
fqdnAddress == 3
ipv6Address == 4

successReply == 0
serverFailure == 1
ruleFailure == 2
networkUnreachable == 3
hostUnreachable == 4
connectionRefused == 5
ttlExpired == 6
commandNotSupported == 7
addrTypeNotSupported == 8

unrecognizedAddrType == "Unrecognized address type"

(* Bounds of the model *)
MaxCtrlWrites == 2   \* data writes of the client on the control connection
MaxNameLen == 3      \* short host names have 1..MaxNameLen bytes

-----------------------------------------------------------------------------
(* addrSpec: fqdn string, ip net.IP (empty when nil), port int; nil marks   *)
(* the nil *addrSpec.                                                       *)

addrSpec(f, i, p) == [nil |-> FALSE, fqdn |-> f, ip |-> i, port |-> p]
nilAddr == [nil |-> TRUE, fqdn |-> <<>>, ip |-> <<>>, port |-> 0]

(* binary.BigEndian.Uint16 and PutUint16 *)
Uint16(b) == b[1] * 256 + b[2]
PutUint16(v) == <<(v \div 256) % 256, v % 256>>

(* r.Read(buf) with len(buf) = 1 on a buffered stream *)
Read1(r) ==
    IF Len(r) = 0
    THEN [err |-> "EOF", data |-> <<>>, rest |-> r]
    ELSE [err |-> "", data |-> <<Head(r)>>, rest |-> Tail(r)]

(* io.ReadAtLeast(r, buf, n) with len(buf) = n *)
ReadAtLeast(r, n) ==
    IF Len(r) >= n
    THEN [err |-> "", data |-> SubSeq(r, 1, n), rest |-> SubSeq(r, n + 1, Len(r))]
    ELSE [err |-> IF Len(r) = 0 THEN "EOF" ELSE "unexpected EOF",
          data |-> r, rest |-> <<>>]

(* net.IP.To4: the 4-byte form of an IPv4 or IPv4-mapped address, else nil *)
To4(ip) ==
    IF Len(ip) = 4 THEN ip
    ELSE IF /\ Len(ip) = 16
            /\ \A i \in 1..10 : ip[i] = 0
            /\ ip[11] = 255 /\ ip[12] = 255
         THEN SubSeq(ip, 13, 16)
         ELSE <<>>

(* net.IP.To16: the 16-byte form of an address, else nil *)
To16(ip) ==
    IF Len(ip) = 4
    THEN <<0, 0, 0, 0, 0, 0, 0, 0, 0, 0, 255, 255>> \o ip
    ELSE IF Len(ip) = 16 THEN ip ELSE <<>>

-----------------------------------------------------------------------------
(* readAddrSpec: address type byte, address, port.  The result carries the  *)
(* error ("" for nil), the addrSpec and the unread rest of the stream.      *)

readPortPadded(d, r) ==
    LET p == ReadAtLeast(r, 2)
        b == [i \in 1..2 |-> IF i <= Len(p.data) THEN p.data[i] ELSE 0]
    IN [err |-> "", dest |-> [d EXCEPT !.port = Uint16(b)], rest |-> p.rest]

readPort(d, r) ==
    LET p == ReadAtLeast(r, 2) IN
    IF p.err # ""
    THEN [err |-> p.err, dest |-> nilAddr, rest |-> p.rest]
    ELSE [err |-> "", dest |-> [d EXCEPT !.port = Uint16(p.data)], rest |-> p.rest]

(* r.Read(buf) with len(buf) = 1 on a reader that, while bytes remain, may  *)
(* also return 0 bytes and a nil error: buf then keeps the value old it     *)
(* held before the call.                                                    *)
Read1Into(r, old, zero) ==
    IF zero /\ Len(r) > 0
    THEN [err |-> "", data |-> <<old>>, rest |-> r]
    ELSE Read1(r)

(* readAddrSpec on a reader whose Read calls numbered in z return 0, nil:   *)
(* call 1 reads the address type into addrType (initially 0), call 2 reads  *)
(* the FQDN length into the same one-byte buffer.                           *)
readAddrSpecRd(r, z) ==
    LET t == Read1Into(r, 0, 1 \in z) IN
    IF t.err # ""
    THEN [err |-> t.err, dest |-> nilAddr, rest |-> t.rest]
    ELSE LET addrType == t.data[1] IN
         CASE addrType = ipv4Address ->
                LET a == ReadAtLeast(t.rest, 4) IN
                IF a.err # ""
                THEN [err |-> a.err, dest |-> nilAddr, rest |-> a.rest]
                ELSE readPort(addrSpec(<<>>, a.data, 0), a.rest)
           [] addrType = ipv6Address ->
                LET a == ReadAtLeast(t.rest, 16) IN
                IF a.err # ""
                THEN [err |-> a.err, dest |-> nilAddr, rest |-> a.rest]
                ELSE readPort(addrSpec(<<>>, a.data, 0), a.rest)
           [] addrType = fqdnAddress ->
                LET l == Read1Into(t.rest, addrType, 2 \in z) IN
                IF l.err # ""
                THEN [err |-> l.err, dest |-> nilAddr, rest |-> l.rest]
                ELSE LET a == ReadAtLeast(l.rest, l.data[1]) IN
                     IF a.err # ""
                     THEN [err |-> a.err, dest |-> nilAddr, rest |-> a.rest]
                     ELSE readPort(addrSpec(a.data, <<>>, 0), a.rest)
           [] OTHER ->
                [err |-> unrecognizedAddrType, dest |-> nilAddr, rest |-> t.rest]

(* readAddrSpec on a stream whose every Read delivers the bytes asked for *)
readAddrSpec(r) == readAddrSpecRd(r, {})

-----------------------------------------------------------------------------
(* sendReply: the outcome is "ok" with the message handed to w.Write,       *)
(* "error" when the address cannot be formatted, or "panic": with a nil     *)
(* addr the port is read through the nil pointer after the switch.          *)

replyMsgSwapped(resp, addrType, addrBody, port) ==
    <<socks5Version, 0, resp, addrType>> \o addrBody \o PutUint16(port % 65536)

replyMsg(resp, addrType, addrBody, port) ==
    <<socks5Version, resp, 0, addrType>> \o addrBody \o PutUint16(port % 65536)

sendReplyIPFirst(resp, addr) ==
    IF addr.nil
    THEN [outcome |-> "panic", msg |-> <<>>]
    ELSE IF To4(addr.ip) # <<>>
    THEN [outcome |-> "ok",
          msg |-> <<socks5Version, resp, 0, ipv4Address>> \o To4(addr.ip)
                      \o PutUint16(addr.port % 65536)]
    ELSE IF To16(addr.ip) # <<>>
    THEN [outcome |-> "ok",
          msg |-> <<socks5Version, resp, 0, ipv6Address>> \o To16(addr.ip)
                      \o PutUint16(addr.port % 65536)]
    ELSE IF addr.fqdn # <<>>
    THEN [outcome |-> "ok",
          msg |-> <<socks5Version, resp, 0, fqdnAddress, Len(addr.fqdn) % 256>>
                      \o addr.fqdn \o PutUint16(addr.port % 65536)]
    ELSE [outcome |-> "error", msg |-> <<>>]

sendReply(resp, addr) ==
    IF addr.nil
    THEN [outcome |-> "panic", msg |-> <<>>]
    ELSE IF addr.fqdn # <<>>
    THEN [outcome |-> "ok",
          msg |-> replyMsg(resp, fqdnAddress,
                           <<Len(addr.fqdn) % 256>> \o addr.fqdn, addr.port)]
    ELSE IF To4(addr.ip) # <<>>
    THEN [outcome |-> "ok",
          msg |-> replyMsg(resp, ipv4Address, To4(addr.ip), addr.port)]
    ELSE IF To16(addr.ip) # <<>>
    THEN [outcome |-> "ok",
          msg |-> replyMsg(resp, ipv6Address, To16(addr.ip), addr.port)]
    ELSE [outcome |-> "error", msg |-> <<>>]

-----------------------------------------------------------------------------
(* Inputs: the request streams a client may send *)

Name(n) == [i \in 1..n |-> 97 + (i % 26)]
Ping == <<112, 105, 110, 103>>
Pong == <<112, 111, 110, 103>>

Loopback == <<127, 0, 0, 1>>
IPv6Plain == <<32, 1, 13, 184, 0, 0, 0, 0, 0, 0, 0, 0, 0, 0, 0, 1>>
IPv6Mapped == <<0, 0, 0, 0, 0, 0, 0, 0, 0, 0, 255, 255, 1, 2, 3, 4>>

Versions == {socks4Version, socks5Version}
Commands == {connectCommand, bindCommand, associateCommand, 9}
Reserveds == {0, 1}
UnknownTypes == {0, 2, 5, 255}
Ports == {<<0, 80>>, <<1, 187>>}
Payloads == {<<>>, Ping}
CtrlData == {<<115>>, <<100, 97>>}

AddrParts ==
    {<<ipv4Address>> \o Loopback,
     <<ipv6Address>> \o IPv6Plain,
     <<ipv6Address>> \o IPv6Mapped}
    \cup {<<fqdnAddress, n>> \o Name(n) : n \in 0..MaxNameLen}
    \cup {<<t>> : t \in UnknownTypes}

Requests ==
    {<<v, c, r>> \o a \o p : v \in Versions, c \in Commands, r \in Reserveds,
                             a \in AddrParts, p \in Ports}

Streams ==
    {q \o t : q \in Requests, t \in Payloads}
    \cup UNION {{SubSeq(q, 1, k) : k \in 0..Len(q)} : q \in Requests}

noResult == [err |-> "", dest |-> nilAddr, rest |-> <<>>]
noRequest == [err |-> "", command |-> 0, dest |-> nilAddr, username |-> <<>>,
              address |-> <<>>]

-----------------------------------------------------------------------------
(* handleRequest and the command handlers *)

Init ==
    /\ rules \in {"PermitAll", "PermitNone"}
    /\ bufConn \in Streams
    /\ sent = bufConn
    /\ ctrlOpen = TRUE
    /\ ctrlWrites = 0
    /\ pc = "handleRequest"
    /\ header = <<0, 0, 0>>
    /\ dest = nilAddr
    /\ err = ""
    /\ cause = ""
    /\ written = <<>>
    /\ entered = "none"
    /\ decoded = noResult
    /\ request = noRequest
    /\ replies = 0
    /\ zeroReads = {}

(* handleRequest: read the header and check the version *)
ReadHeader ==
    /\ pc = "handleRequest"
    /\ LET h == ReadAtLeast(bufConn, 3) IN
       /\ bufConn' = h.rest
       /\ header' = [i \in 1..3 |-> IF i <= Len(h.data) THEN h.data[i] ELSE 0]
       /\ IF h.err # ""
          THEN /\ err' = "Failed to get command version"
               /\ cause' = h.err
               /\ pc' = "done"
          ELSE IF h.data[1] # socks5Version
          THEN /\ err' = "Unsupported command version"
               /\ cause' = ""
               /\ pc' = "done"
          ELSE /\ pc' = "readAddrSpec"
               /\ UNCHANGED <<err, cause>>
    /\ UNCHANGED <<replies, zeroReads,
                   rules, ctrlOpen, ctrlWrites, dest, written, entered, sent,
                   decoded, request>>

ReadDestReplyTwice ==
    /\ pc = "readAddrSpec"
    /\ LET a == readAddrSpec(bufConn)
           zero == addrSpec(<<>>, <<0, 0, 0, 0>>, 0)
       IN
       /\ bufConn' = a.rest
       /\ IF a.err = ""
          THEN /\ dest' = a.dest
               /\ pc' = "switch"
               /\ UNCHANGED <<err, cause, written, replies>>
          ELSE /\ replies' = replies + 2
               /\ written' = written \o sendReply(addrTypeNotSupported, zero).msg
                                     \o sendReply(serverFailure, zero).msg
               /\ err' = "Failed to read destination address"
               /\ cause' = a.err
               /\ pc' = "done"
               /\ UNCHANGED dest
    /\ UNCHANGED <<zeroReads, rules, ctrlOpen, ctrlWrites, header, entered, sent,
                   decoded, request>>

(* handleRequest: read in the destination address *)
ReadDest ==
    /\ pc = "readAddrSpec"
    /\ LET a == readAddrSpec(bufConn)
           s == sendReply(addrTypeNotSupported, nilAddr)
       IN
       /\ bufConn' = a.rest
       /\ IF a.err = ""
          THEN /\ dest' = a.dest
               /\ pc' = "switch"
               /\ UNCHANGED <<err, cause, written, replies>>
          ELSE IF a.err # unrecognizedAddrType
          THEN /\ err' = "Failed to read destination address"
               /\ cause' = a.err
               /\ pc' = "done"
               /\ UNCHANGED <<dest, written, replies>>
          ELSE /\ replies' = replies + 1
               /\ CASE s.outcome = "panic" ->
                      /\ pc' = "panic"
                      /\ cause' = "nil pointer dereference"
                      /\ UNCHANGED <<dest, err, written>>
                 [] s.outcome = "error" ->
                      /\ err' = "Failed to send reply"
                      /\ cause' = "Failed to format address"
                      /\ pc' = "done"
                      /\ UNCHANGED <<dest, written>>
                 [] OTHER ->
                      /\ written' = written \o s.msg
                      /\ err' = "Failed to read destination address"
                      /\ cause' = a.err
                      /\ pc' = "done"
                      /\ UNCHANGED dest
    /\ UNCHANGED <<zeroReads, rules, ctrlOpen, ctrlWrites, header, entered, sent,
                   decoded, request>>

(* handleRequest: switch on the command *)
Dispatch ==
    /\ pc = "switch"
    /\ CASE header[2] = connectCommand ->
              /\ pc' = "handleConnect"
              /\ entered' = "handleConnect"
              /\ UNCHANGED <<err, cause>>
         [] header[2] = bindCommand ->
              /\ pc' = "handleBind"
              /\ entered' = "handleBind"
              /\ UNCHANGED <<err, cause>>
         [] header[2] = associateCommand ->
              /\ pc' = "handleAssociate"
              /\ entered' = "handleAssociate"
              /\ UNCHANGED <<err, cause>>
         [] OTHER ->
              /\ err' = "Unsupported command"
              /\ cause' = ""
              /\ pc' = "done"
              /\ UNCHANGED entered
    /\ UNCHANGED <<replies, zeroReads,
                   rules, bufConn, ctrlOpen, ctrlWrites, header, dest, written,
                   sent, decoded, request>>

(* handleConnect returns nil *)
handleConnect ==
    /\ pc = "handleConnect"
    /\ pc' = "done"
    /\ err' = ""
    /\ cause' = ""
    /\ UNCHANGED <<replies, zeroReads,
                   rules, bufConn, ctrlOpen, ctrlWrites, header, dest, written,
                   entered, sent, decoded, request>>

(* handleBind returns nil *)
handleBind ==
    /\ pc = "handleBind"
    /\ pc' = "done"
    /\ err' = ""
    /\ cause' = ""
    /\ UNCHANGED <<replies, zeroReads,
                   rules, bufConn, ctrlOpen, ctrlWrites, header, dest, written,
                   entered, sent, decoded, request>>

(* handleAssociate returns nil *)
handleAssociate ==
    /\ pc = "handleAssociate"
    /\ pc' = "done"
    /\ err' = ""
    /\ cause' = ""
    /\ UNCHANGED <<replies, zeroReads,
                   rules, bufConn, ctrlOpen, ctrlWrites, header, dest, written,
                   entered, sent, decoded, request>>

(* The client of the control connection, once its command is being handled *)
ClientWrite ==
    /\ entered # "none"
    /\ ctrlOpen
    /\ ctrlWrites < MaxCtrlWrites
    /\ \E d \in CtrlData :
         /\ bufConn' = bufConn \o d
         /\ sent' = sent \o d
    /\ ctrlWrites' = ctrlWrites + 1
    /\ UNCHANGED <<replies, zeroReads,
                   rules, ctrlOpen, pc, header, dest, err, cause, written,
                   entered, decoded, request>>

ClientClose ==
    /\ entered # "none"
    /\ ctrlOpen
    /\ ctrlOpen' = FALSE
    /\ UNCHANGED <<replies, zeroReads,
                   rules, bufConn, ctrlWrites, pc, header, dest, err, cause,
                   written, entered, sent, decoded, request>>

Next ==
    \/ ReadHeader
    \/ ReadDest
    \/ Dispatch
    \/ handleConnect
    \/ handleBind
    \/ handleAssociate
    \/ ClientWrite
    \/ ClientClose

Spec == Init /\ [][Next]_vars

-----------------------------------------------------------------------------
(* Claims about handleRequest and the command handlers, checked under Spec *)

Finished == pc \in {"done", "panic"}
Socks5Parsed == header[1] = socks5Version /\ ~dest.nil

\* C1: a SOCKS5 CONNECT request handled under the deny-all rule set ends with
\* an error "blocked by rules" and exactly the bytes 5,2,0,1,0,0,0,0,0,0
\* (ruleFailure, zero IPv4 address, zero port) written to the client.
C1_DenyAllConnectReply ==
    (Finished /\ rules = "PermitNone" /\ Socks5Parsed
        /\ header[2] = connectCommand)
    => /\ pc = "done"
       /\ err = "blocked by rules"
       /\ written = <<socks5Version, ruleFailure, 0, ipv4Address, 0, 0, 0, 0, 0, 0>>

\* C2: a command handler is entered for a request only when the rule set
\* allows the request; under the deny-all rule set no handler is entered.
C2_HandlerOnlyAfterAllow ==
    entered # "none" => rules = "PermitAll"

\* C3: during ASSOCIATE, while the control connection is still open,
\* handleAssociate has not returned.
C3_AssociateBlocksWhileOpen ==
    (entered = "handleAssociate" /\ ctrlOpen) => pc = "handleAssociate"

\* C4: handleAssociate returns only once the control connection is closed,
\* and then returns nil, also when the client wrote data before closing.
C4_AssociateReturnsAfterClosure ==
    (entered = "handleAssociate" /\ pc = "done")
    => (~ctrlOpen /\ err = "")

\* C5: a SOCKS5 CONNECT to an IPv4 target under the allow-all rule set writes
\* a success reply (status 0, address type 1, 4-byte address, 2-byte port),
\* after it exactly the bytes the target wrote, and returns nil.
C5_ConnectReplyThenRelay ==
    (pc = "done" /\ entered = "handleConnect" /\ rules = "PermitAll"
        /\ Len(dest.ip) = 4)
    => /\ err = ""
       /\ Len(written) = 10 + Len(Pong)
       /\ SubSeq(written, 1, 4) = <<socks5Version, successReply, 0, ipv4Address>>
       /\ SubSeq(written, 11, Len(written)) = Pong

\* C6: a SOCKS5 request whose address type byte is not 1, 3 or 4 makes
\* handleRequest write an addrTypeNotSupported reply and then return the
\* unrecognized-address-type error, without crashing and without entering a
\* command handler.
C6_UnknownAddrTypeReply ==
    (Finished /\ Len(sent) >= 4 /\ sent[1] = socks5Version
        /\ sent[4] \notin {ipv4Address, fqdnAddress, ipv6Address})
    => /\ pc = "done"
       /\ err = "Failed to read destination address"
       /\ cause = unrecognizedAddrType
       /\ Len(written) >= 2 /\ written[2] = addrTypeNotSupported
       /\ entered = "none"

\* C9: a command handler that has completed has first written the success
\* reply carrying the bound address (BoundReplySent precedes Relaying and
\* Closed), and nothing precedes that reply on the connection.
C9_BoundReplyBeforeRelay ==
    (entered # "none" /\ pc = "done")
    => /\ Len(written) >= 4
       /\ SubSeq(written, 1, 3) = <<socks5Version, successReply, 0>>

\* C10: a SOCKS5 request with a decodable destination and a command other
\* than CONNECT, BIND, ASSOCIATE fails with the unsupported-command error,
\* enters no handler, and a commandNotSupported reply was written before.
C10_UnsupportedCommandReply ==
    (pc = "done" /\ Socks5Parsed
        /\ header[2] \notin {connectCommand, bindCommand, associateCommand})
    => /\ err = "Unsupported command"
       /\ entered = "none"
       /\ Len(written) >= 2 /\ written[2] = commandNotSupported

\* C11: a SOCKS5 request whose reserved byte (third header byte) is not 0
\* is rejected with an error and no command handler is entered for it.
C11_ReservedByteChecked ==
    (Len(sent) >= 3 /\ sent[1] = socks5Version /\ sent[3] # 0)
    => (entered = "none" /\ (pc = "done" => err # ""))

\* C14: an addrSpec that readAddrSpec returned without error has exactly one
\* of FQDN and IP populated: a 4- or 16-byte IP with an empty FQDN, or a
\* non-empty FQDN with no IP.
C14_ExactlyOnePopulated ==
    ~dest.nil
    => \/ (Len(dest.ip) \in {4, 16} /\ dest.fqdn = <<>>)
       \/ (dest.ip = <<>> /\ dest.fqdn # <<>>)

(* A stream that ends before a complete SOCKS5 request, or whose version   *)
(* byte is wrong: short header, missing address type, short address body,  *)
(* missing FQDN length, short FQDN, short port.                            *)
Malformed(s) ==
    \/ Len(s) < 3
    \/ s[1] # socks5Version
    \/ Len(s) = 3
    \/ (s[4] = ipv4Address /\ Len(s) < 3 + 1 + 4 + 2)
    \/ (s[4] = ipv6Address /\ Len(s) < 3 + 1 + 16 + 2)
    \/ (s[4] = fqdnAddress /\ Len(s) < 3 + 2)
    \/ (s[4] = fqdnAddress /\ Len(s) < 3 + 2 + s[5] + 2)

\* C15: for a stream that is malformed or ends before a complete SOCKS5
\* request was read, handleRequest returns an error that carries the failure
\* and enters none of handleConnect, handleBind, handleAssociate.
C15_MalformedRejected ==
    Malformed(sent)
    => /\ entered = "none"
       /\ pc # "panic"
       /\ pc = "done"
          => /\ err \in {"Failed to get command version",
                         "Unsupported command version",
                         "Failed to read destination address"}
             /\ (err # "Unsupported command version"
                    => cause \in {"EOF", "unexpected EOF"})

C15_Witness ==
    /\ pc = "done"
    /\ sent = <<socks5Version, connectCommand, 0, ipv4Address>> \o Loopback \o <<0>>
    /\ err = "Failed to read destination address"
    /\ cause = "unexpected EOF"
    /\ entered = "none"

-----------------------------------------------------------------------------
(* The address codec on its own: sendReply encodes an addrSpec, readAddrSpec *)
(* decodes the address portion (address type, body, port) of the message.   *)

LongNameLens == {255, 256, 257}
CodecPorts == {0, 80, 443, 65535}
Statuses == successReply..addrTypeNotSupported

CodecAddrs ==
    {addrSpec(<<>>, ip, p) :
        ip \in {Loopback, To16(Loopback), IPv6Plain, IPv6Mapped}, p \in CodecPorts}
    \cup {addrSpec(Name(n), <<>>, p) :
        n \in (1..MaxNameLen) \cup LongNameLens, p \in CodecPorts}

(* addrSpec values outside the three forms: FQDN and IP both set, an IP of  *)
(* a length that is no address, no IP at all                               *)
OddAddrs ==
    {addrSpec(f, ip, p) :
        f \in {Name(2)}, ip \in {Loopback, IPv6Plain}, p \in CodecPorts}
    \cup {addrSpec(<<>>, ip, p) : ip \in {<<1, 2, 3>>, <<>>}, p \in CodecPorts}

(* net.IP.Equal: an IPv4 address and its IPv4-mapped form are the same IP *)
IPEqual(a, b) == To16(a) = To16(b)

InitCodec ==
    /\ dest \in CodecAddrs \cup OddAddrs \cup {nilAddr}
    /\ header \in {<<socks5Version, st, 0>> : st \in Statuses}
    /\ pc = "sendReply"
    /\ rules = "PermitAll"
    /\ bufConn = <<>>
    /\ sent = <<>>
    /\ ctrlOpen = TRUE
    /\ ctrlWrites = 0
    /\ err = ""
    /\ cause = ""
    /\ written = <<>>
    /\ entered = "none"
    /\ decoded = noResult
    /\ request = noRequest
    /\ replies = 0
    /\ zeroReads = {}

(* sendReply(w, resp, addr) with resp = header[2], addr = dest *)
Encode ==
    /\ pc = "sendReply"
    /\ LET s == sendReply(header[2], dest) IN
       CASE s.outcome = "panic" ->
              /\ pc' = "panic"
              /\ cause' = "nil pointer dereference"
              /\ UNCHANGED <<err, written>>
         [] s.outcome = "error" ->
              /\ pc' = "done"
              /\ err' = "Failed to format address"
              /\ UNCHANGED <<cause, written>>
         [] OTHER ->
              /\ pc' = "readAddrSpec"
              /\ written' = written \o s.msg
              /\ UNCHANGED <<err, cause>>
    /\ replies' = replies + 1
    /\ UNCHANGED <<zeroReads, rules, bufConn, ctrlOpen, ctrlWrites, header, dest,
                   entered, sent, decoded, request>>

(* readAddrSpec on the bytes of the reply after version, status, reserved *)
Decode ==
    /\ pc = "readAddrSpec"
    /\ decoded' = readAddrSpec(SubSeq(written, 4, Len(written)))
    /\ pc' = "decoded"
    /\ UNCHANGED <<replies, zeroReads,
                   rules, bufConn, ctrlOpen, ctrlWrites, header, dest, err, cause,
                   written, entered, sent, request>>

NextCodec == Encode \/ Decode

SpecCodec == InitCodec /\ [][NextCodec]_vars

\* C7: decoding the address portion of the reply sendReply encodes for an
\* IPv4, IPv6 or FQDN address spec yields the original address spec: the same
\* FQDN, the same IP and the same port, with nothing left over.
C7_CodecRoundTrip ==
    (pc = "decoded" /\ dest \in CodecAddrs)
    => /\ decoded.err = ""
       /\ decoded.rest = <<>>
       /\ decoded.dest.fqdn = dest.fqdn
       /\ IPEqual(decoded.dest.ip, dest.ip)
       /\ decoded.dest.port = dest.port

Encoded == pc \in {"readAddrSpec", "decoded"}

\* C12: sendReply called with addr == nil completes normally and writes
\* exactly version 5, the status, reserved 0, address type 0, an empty
\* address body and port 0.
C12_NilAddrReply ==
    (dest.nil /\ pc # "sendReply")
    => /\ pc # "panic"
       /\ written = <<socks5Version, header[2], 0, 0, 0, 0>>

\* C13 (as stated): no reply written by sendReply carries address type 3,
\* also for an addrSpec whose FQDN is non-empty.
C13_NeverFqdnType ==
    Encoded => written[4] # fqdnAddress

\* C13 (amended): a reply written by sendReply carries address type 3
\* exactly when the addrSpec's FQDN is non-empty, whether or not an IP is set
\* too; with an empty FQDN the address type is 1 or 4.
C13_FqdnTypeIffFqdn ==
    Encoded
    => IF dest.fqdn # <<>>
       THEN written[4] = fqdnAddress
       ELSE written[4] \in {ipv4Address, ipv6Address}

C13_Witness ==
    /\ pc = "decoded"
    /\ dest.fqdn = Name(2)
    /\ dest.ip = Loopback
    /\ written[4] = fqdnAddress

C18_FqdnLengthByte ==
    (Encoded /\ dest.fqdn # <<>>)
    => /\ written[5] = Len(dest.fqdn)
       /\ Len(written) = 5 + Len(dest.fqdn) + 2
       /\ SubSeq(written, 6, 5 + Len(dest.fqdn)) = dest.fqdn

-----------------------------------------------------------------------------
(* The decoder on wire bytes: readAddrSpec reads an address from a stream   *)
(* whose reader may return 0 bytes and no error from some Read calls, and   *)
(* sendReply encodes the decoded address again.                             *)

WireStreams ==
    LET whole == {a \o p : a \in AddrParts, p \in Ports} IN
    whole \cup UNION {{SubSeq(q, 1, k) : k \in 0..Len(q)} : q \in whole}

InitWire ==
    /\ bufConn \in WireStreams
    /\ sent = bufConn
    /\ zeroReads \in SUBSET {1, 2}
    /\ pc = "readAddrSpec"
    /\ rules = "PermitAll"
    /\ header = <<socks5Version, successReply, 0>>
    /\ dest = nilAddr
    /\ ctrlOpen = TRUE
    /\ ctrlWrites = 0
    /\ err = ""
    /\ cause = ""
    /\ written = <<>>
    /\ entered = "none"
    /\ decoded = noResult
    /\ request = noRequest
    /\ replies = 0

(* readAddrSpec(r) on the stream, delivered as zeroReads says *)
DecodeWire ==
    /\ pc = "readAddrSpec"
    /\ LET a == readAddrSpecRd(bufConn, zeroReads) IN
       /\ decoded' = a
       /\ bufConn' = a.rest
       /\ dest' = a.dest
       /\ pc' = IF a.err = "" THEN "sendReply" ELSE "done"
    /\ UNCHANGED <<replies, zeroReads,
                   rules, ctrlOpen, ctrlWrites, header, err, cause, written,
                   entered, sent, request>>

(* sendReply(w, successReply, d) for the decoded address d *)
Reencode ==
    /\ pc = "sendReply"
    /\ LET s == sendReply(header[2], dest) IN
       IF s.outcome = "ok"
       THEN /\ written' = written \o s.msg
            /\ pc' = "reencoded"
            /\ UNCHANGED err
       ELSE /\ err' = "Failed to format address"
            /\ pc' = "done"
            /\ UNCHANGED written
    /\ replies' = replies + 1
    /\ UNCHANGED <<zeroReads, rules, bufConn, ctrlOpen, ctrlWrites, header, dest,
                   cause, entered, sent, decoded, request>>

NextWire == DecodeWire \/ Reencode

SpecWire == InitWire /\ [][NextWire]_vars

\* C19: the result of readAddrSpec depends only on the bytes of the stream,
\* not on how the reader delivers them: with Read calls that return 0 bytes
\* and no error it returns the same address spec or error as without.
C19_DeliveryIndependent ==
    pc # "readAddrSpec"
    => /\ decoded.err = readAddrSpec(sent).err
       /\ decoded.dest = readAddrSpec(sent).dest

\* C20: an address decoded from wire bytes of type 1 or 4 is encoded again by
\* sendReply with the same address type byte, the same body and the same
\* port bytes; an IPv4-mapped 16-byte address stays type 4 with 16 bytes.
C20_ReencodeSameBytes ==
    (pc = "reencoded" /\ zeroReads = {}
        /\ sent[1] \in {ipv4Address, ipv6Address})
    => SubSeq(written, 4, Len(written)) = sent

-----------------------------------------------------------------------------
(* NewRequest for protocol version 4: the stream after the version byte is  *)
(* CD(1) DSTPORT(2) DSTIP(4) USERID NUL [DSTHOST NUL], the host name being  *)
(* present iff DSTIP is in 0.0.0.1 - 0.0.0.255.                             *)

(* a NUL-terminated string: its bytes and the stream after the NUL *)
RECURSIVE readCString(_)
readCString(r) ==
    IF Len(r) = 0
    THEN [err |-> "EOF", data |-> <<>>, rest |-> <<>>]
    ELSE IF Head(r) = 0
    THEN [err |-> "", data |-> <<>>, rest |-> Tail(r)]
    ELSE LET t == readCString(Tail(r)) IN
         [err |-> t.err, data |-> <<Head(r)>> \o t.data, rest |-> t.rest]

(* decimal digits of a natural number, as ASCII *)
RECURSIVE Itoa(_)
Itoa(n) ==
    IF n < 10 THEN <<48 + n>> ELSE Itoa(n \div 10) \o <<48 + (n % 10)>>

(* net.IP.String of a 4-byte address *)
IPString(ip) ==
    Itoa(ip[1]) \o <<46>> \o Itoa(ip[2]) \o <<46>> \o Itoa(ip[3]) \o <<46>>
        \o Itoa(ip[4])

(* AddrSpec.Address: "host:port", the FQDN preferred over the IP *)
Address(d) ==
    (IF d.fqdn # <<>> THEN d.fqdn ELSE IPString(d.ip)) \o <<58>> \o Itoa(d.port)

isSocks4aMutant(ip) == ip[1] = 0 /\ ip[2] = 0 /\ ip[3] = 0

(* the 4a sentinel range 0.0.0.1 - 0.0.0.255 *)
isSocks4a(ip) == ip[1] = 0 /\ ip[2] = 0 /\ ip[3] = 0 /\ ip[4] # 0

failed4(e) == [err |-> e, command |-> 0, dest |-> nilAddr, username |-> <<>>,
               address |-> <<>>]

NewRequest4(r) ==
    LET fixed == ReadAtLeast(r, 7) IN
    IF fixed.err # "" THEN failed4(fixed.err)
    ELSE LET cmd == fixed.data[1]
             port == Uint16(SubSeq(fixed.data, 2, 3))
             ip == SubSeq(fixed.data, 4, 7)
             user == readCString(fixed.rest)
         IN
         IF user.err # "" THEN failed4(user.err)
         ELSE IF ~isSocks4a(ip)
         THEN LET d == addrSpec(<<>>, ip, port) IN
              [err |-> "", command |-> cmd, dest |-> d,
               username |-> user.data, address |-> Address(d)]
         ELSE LET host == readCString(user.rest) IN
              IF host.err # "" THEN failed4(host.err)
              ELSE LET d == addrSpec(host.data, <<>>, port) IN
                   [err |-> "", command |-> cmd, dest |-> d,
                    username |-> user.data, address |-> Address(d)]

Commands4 == {connectCommand, bindCommand}
Addrs4 == {<<0, 0, 0, 1>>, <<0, 0, 0, 255>>, <<0, 0, 0, 0>>, <<1, 2, 3, 4>>,
           <<0, 0, 1, 0>>}
Users4 == {<<>>, <<116, 111, 109>>}
Hosts4 == {Name(n) : n \in 1..MaxNameLen}

(* a well-formed version-4 request, after its version byte *)
Request4(c, p, ip, u, h) ==
    <<c>> \o p \o ip \o u \o <<0>>
        \o (IF ip[1] = 0 /\ ip[2] = 0 /\ ip[3] = 0 /\ ip[4] > 0
            THEN h \o <<0>> ELSE <<>>)

Requests4 ==
    {Request4(c, p, ip, u, h) :
        c \in Commands4, p \in Ports, ip \in Addrs4, u \in Users4, h \in Hosts4}

Streams4 ==
    Requests4 \cup UNION {{SubSeq(q, 1, k) : k \in 0..Len(q)} : q \in Requests4}

InitSocks4 ==
    /\ bufConn \in Streams4
    /\ sent = bufConn
    /\ pc = "NewRequest"
    /\ rules = "PermitAll"
    /\ header = <<socks4Version, 0, 0>>
    /\ dest = nilAddr
    /\ ctrlOpen = TRUE
    /\ ctrlWrites = 0
    /\ err = ""
    /\ cause = ""
    /\ written = <<>>
    /\ entered = "none"
    /\ decoded = noResult
    /\ request = noRequest
    /\ replies = 0
    /\ zeroReads = {}

(* NewRequest(reader, 4) *)
ParseSocks4 ==
    /\ pc = "NewRequest"
    /\ request' = NewRequest4(bufConn)
    /\ bufConn' = <<>>
    /\ pc' = "parsed"
    /\ UNCHANGED <<replies, zeroReads,
                   rules, ctrlOpen, ctrlWrites, header, dest, err, cause, written,
                   entered, sent, decoded>>

NextSocks4 == ParseSocks4

SpecSocks4 == InitSocks4 /\ [][NextSocks4]_vars

PortText(p) == IF p = <<0, 80>> THEN <<56, 48>> ELSE <<52, 52, 51>>
PortValue(p) == IF p = <<0, 80>> THEN 80 ELSE 443

====
